---- MODULE Spec2Model ----
(***************************************************************************)
(* The SSE stream parser of src/test_streaming.py (StreamingTester):       *)
(* _parse_sse_stream buffers the chunks of a response body and splits them *)
(* into lines, _process_sse_line classifies each line, _handle_json_data   *)
(* dispatches a parsed JSON value.                                         *)
(*                                                                         *)
(* Text is a sequence of one-character strings.  What the code prints is   *)
(* recorded as the Decoded Event it stands for:                            *)
(*   print("Event: ...")          EventName                                *)
(*   print("Stream complete")     Terminator                               *)
(*   _handle_json_data prints     StructuredPayload (sub = the branch)     *)
(*   print(text, end='')          TextPayload                              *)
(*   print("Raw: ...")            RawLine                                  *)
(*   return / pass                None (nothing is printed)                *)
(*   an exception leaves          Raised (caught at line 111)              *)
(***************************************************************************)
EXTENDS Integers, Sequences, FiniteSets, TLC

NL == "\n"
CR == "\r"
TAB == "\t"
FF == "\f"
QUOTE == "\""
BACKSLASH == "\\"

\* str.strip() with no argument removes these from both ends.
PyWhitespace == {" ", TAB, NL, CR, FF}

StartsWith(s, p) == Len(s) >= Len(p) /\ SubSeq(s, 1, Len(p)) = p

\* s[i:] with Python's 0-based i.
From(s, i) == SubSeq(s, i + 1, Len(s))

\* whether p occurs in s starting at the 1-based index i
MatchAt(s, i, p) == i + Len(p) - 1 <= Len(s) /\ SubSeq(s, i, i + Len(p) - 1) = p

\* Python's `p in s` for two strings.
Contains(s, p) == \E i \in 1..(Len(s) + 1) : MatchAt(s, i, p)

RECURSIVE RStripCR(_)
RStripCR(s) ==
  IF Len(s) > 0 /\ s[Len(s)] = CR THEN RStripCR(SubSeq(s, 1, Len(s) - 1)) ELSE s

RECURSIVE LStrip(_)
LStrip(s) == IF Len(s) > 0 /\ s[1] \in PyWhitespace THEN LStrip(Tail(s)) ELSE s

RECURSIVE RStrip(_)
RStrip(s) ==
  IF Len(s) > 0 /\ s[Len(s)] \in PyWhitespace
  THEN RStrip(SubSeq(s, 1, Len(s) - 1)) ELSE s

Strip(s) == RStrip(LStrip(s))

\* data.replace('\\n', '\n'): every backslash-n pair, left to right.
RECURSIVE Unescape(_)
Unescape(s) ==
  IF Len(s) = 0 THEN <<>>
  ELSE IF MatchAt(s, 1, <<BACKSLASH, "n">>) THEN <<NL>> \o Unescape(From(s, 2))
  ELSE <<s[1]>> \o Unescape(Tail(s))

(***************************************************************************)
(* json.loads(text), as the standard library's decoder does it.  A JSON    *)
(* value is [kind, text, items]: text is a string's characters or a        *)
(* number's or literal's lexeme, items an array's values or an object's    *)
(* members (kind "member": text the key, items the one value).             *)
(***************************************************************************)
JVal(k, t, its) == [kind |-> k, text |-> t, items |-> its]
JNone == JVal("none", <<>>, <<>>)

JFail == [ok |-> FALSE, val |-> JNone, pos |-> 0]
JOk(v, p) == [ok |-> TRUE, val |-> v, pos |-> p]

JsonWs == {" ", TAB, NL, CR}
Digits == {"0", "1", "2", "3", "4", "5", "6", "7", "8", "9"}
HexDigits == Digits \cup {"a", "b", "c", "d", "e", "f", "A", "B", "C", "D", "E", "F"}
\* characters below 0x20, which a strict decoder refuses inside a string
ControlChars == {NL, CR, TAB, FF, "\\b"}

EscapeOf(c) ==
  CASE c = QUOTE -> QUOTE
    [] c = BACKSLASH -> BACKSLASH
    [] c = "/" -> "/"
    [] c = "b" -> "\\b"
    [] c = "f" -> FF
    [] c = "n" -> NL
    [] c = "r" -> CR
    [] c = "t" -> TAB

Escapable == {QUOTE, BACKSLASH, "/", "b", "f", "n", "r", "t"}

RECURSIVE SkipWs(_, _)
SkipWs(s, i) == IF i <= Len(s) /\ s[i] \in JsonWs THEN SkipWs(s, i + 1) ELSE i

RECURSIVE ScanDigits(_, _)
ScanDigits(s, i) == IF i <= Len(s) /\ s[i] \in Digits THEN ScanDigits(s, i + 1) ELSE i

\* NUMBER_RE: (-?(?:0|[1-9]\d*))(\.\d+)?([eE][-+]?\d+)?; the index after the
\* match, or 0 when nothing matches at i.
\* the exponent, from the index c after the integer and fraction
NumberExp(s, c) ==
  IF c <= Len(s) /\ s[c] \in {"e", "E"}
  THEN IF c + 1 <= Len(s) /\ s[c + 1] \in Digits THEN ScanDigits(s, c + 1)
       ELSE IF c + 2 <= Len(s) /\ s[c + 1] \in {"+", "-"} /\ s[c + 2] \in Digits
         THEN ScanDigits(s, c + 2)
       ELSE c
  ELSE c

\* the fraction, from the index b after the integer
NumberFrac(s, b) ==
  IF b + 1 <= Len(s) /\ s[b] = "." /\ s[b + 1] \in Digits
  THEN NumberExp(s, ScanDigits(s, b + 1)) ELSE NumberExp(s, b)

\* the integer, from the index a after the sign
NumberInt(s, a) ==
  IF a > Len(s) \/ s[a] \notin Digits THEN 0
  ELSE IF s[a] = "0" THEN NumberFrac(s, a + 1)
  ELSE NumberFrac(s, ScanDigits(s, a))

MatchNumber(s, i) ==
  IF i <= Len(s) /\ s[i] = "-" THEN NumberInt(s, i + 1) ELSE NumberInt(s, i)

\* py_scanstring from the character after the opening quote (strict mode).
\* A \uXXXX escape is kept as the token "\\u" and its four digits.
RECURSIVE ScanString(_, _, _)
ScanString(s, i, acc) ==
  IF i > Len(s) THEN JFail
  ELSE IF s[i] = QUOTE THEN JOk(JVal("string", acc, <<>>), i + 1)
  ELSE IF s[i] = BACKSLASH THEN
    IF i + 1 > Len(s) THEN JFail
    ELSE IF s[i + 1] = "u" THEN
      IF i + 5 <= Len(s) /\ \A k \in 2..5 : s[i + k] \in HexDigits
      THEN ScanString(s, i + 6, acc \o <<"\\u">> \o SubSeq(s, i + 2, i + 5))
      ELSE JFail
    ELSE IF s[i + 1] \in Escapable
      THEN ScanString(s, i + 2, Append(acc, EscapeOf(s[i + 1])))
    ELSE JFail
  ELSE IF s[i] \in ControlChars THEN JFail
  ELSE ScanString(s, i + 1, Append(acc, s[i]))

Literals ==
  { <<"n", "u", "l", "l">>, <<"t", "r", "u", "e">>, <<"f", "a", "l", "s", "e">> }

FloatNames ==
  { <<"N", "a", "N">>, <<"I", "n", "f", "i", "n", "i", "t", "y">> }

\* a dict keeps a key's first position and its last value
RECURSIVE PutMember(_, _, _)
PutMember(ms, key, v) ==
  IF Len(ms) = 0 THEN <<JVal("member", key, <<v>>)>>
  ELSE IF ms[1].text = key THEN <<JVal("member", key, <<v>>)>> \o Tail(ms)
  ELSE <<ms[1]>> \o PutMember(Tail(ms), key, v)

RECURSIVE ScanOnce(_, _)
RECURSIVE JSONArray(_, _, _)
RECURSIVE JSONObject(_, _, _)
RECURSIVE ArrayAfterValue(_, _, _)
RECURSIVE ObjectAfterKey(_, _, _)
RECURSIVE ObjectAfterValue(_, _, _, _)

\* JSONArray: i is the index where the next value starts
JSONArray(s, i, acc) == ArrayAfterValue(s, acc, ScanOnce(s, i))

\* r is the value just scanned: `]` ends the array, `,` asks for another
ArrayAfterValue(s, acc, r) ==
  IF ~r.ok \/ SkipWs(s, r.pos) > Len(s) THEN JFail
  ELSE IF s[SkipWs(s, r.pos)] = "]"
    THEN JOk(JVal("array", <<>>, Append(acc, r.val)), SkipWs(s, r.pos) + 1)
  ELSE IF s[SkipWs(s, r.pos)] = ","
    THEN JSONArray(s, SkipWs(s, SkipWs(s, r.pos) + 1), Append(acc, r.val))
  ELSE JFail

\* JSONObject: i is the index where the next key's opening quote must be
JSONObject(s, i, acc) ==
  IF i > Len(s) \/ s[i] # QUOTE THEN JFail
  ELSE ObjectAfterKey(s, acc, ScanString(s, i + 1, <<>>))

\* k is the key just scanned: a `:` and the value follow
ObjectAfterKey(s, acc, k) ==
  IF ~k.ok \/ SkipWs(s, k.pos) > Len(s) \/ s[SkipWs(s, k.pos)] # ":" THEN JFail
  ELSE ObjectAfterValue(s, acc, k.val.text,
                        ScanOnce(s, SkipWs(s, SkipWs(s, k.pos) + 1)))

\* r is the value just scanned: `}` ends the object, `,` asks for another key
ObjectAfterValue(s, acc, key, r) ==
  IF ~r.ok \/ SkipWs(s, r.pos) > Len(s) THEN JFail
  ELSE IF s[SkipWs(s, r.pos)] = "}"
    THEN JOk(JVal("object", <<>>, PutMember(acc, key, r.val)), SkipWs(s, r.pos) + 1)
  ELSE IF s[SkipWs(s, r.pos)] = ","
    THEN JSONObject(s, SkipWs(s, SkipWs(s, r.pos) + 1), PutMember(acc, key, r.val))
  ELSE JFail

Lexeme(kind, i, l) == JOk(JVal(kind, l, <<>>), i + Len(l))

\* a number matched from i up to (not including) j; with no match at a `-`
\* only -Infinity is left
NumberAt(s, i, j) ==
  IF j # 0 THEN JOk(JVal("number", SubSeq(s, i, j - 1), <<>>), j)
  ELSE IF MatchAt(s, i, <<"-", "I", "n", "f", "i", "n", "i", "t", "y">>)
    THEN Lexeme("number", i, <<"-", "I", "n", "f", "i", "n", "i", "t", "y">>)
  ELSE JFail

\* scan_once: one value starting exactly at i
ScanOnce(s, i) ==
  IF i > Len(s) THEN JFail
  ELSE IF s[i] = QUOTE THEN ScanString(s, i + 1, <<>>)
  ELSE IF s[i] = "{" THEN
    IF SkipWs(s, i + 1) <= Len(s) /\ s[SkipWs(s, i + 1)] = "}"
    THEN JOk(JVal("object", <<>>, <<>>), SkipWs(s, i + 1) + 1)
    ELSE JSONObject(s, SkipWs(s, i + 1), <<>>)
  ELSE IF s[i] = "[" THEN
    IF SkipWs(s, i + 1) <= Len(s) /\ s[SkipWs(s, i + 1)] = "]"
    THEN JOk(JVal("array", <<>>, <<>>), SkipWs(s, i + 1) + 1)
    ELSE JSONArray(s, SkipWs(s, i + 1), <<>>)
  ELSE IF \E l \in Literals : MatchAt(s, i, l) THEN
    Lexeme("literal", i, CHOOSE l \in Literals : MatchAt(s, i, l))
  ELSE IF s[i] \in Digits \cup {"-"} THEN NumberAt(s, i, MatchNumber(s, i))
  ELSE IF \E l \in FloatNames : MatchAt(s, i, l) THEN
    Lexeme("number", i, CHOOSE l \in FloatNames : MatchAt(s, i, l))
  ELSE JFail

\* json.loads: one value with whitespace around it and nothing else;
\* ok = FALSE stands for json.JSONDecodeError.
WholeText(s, r) == IF r.ok /\ SkipWs(s, r.pos) = Len(s) + 1 THEN r ELSE JFail

JsonLoads(s) == WholeText(s, ScanOnce(s, SkipWs(s, 1)))

(***************************************************************************)
(* Decoded events                                                          *)
(***************************************************************************)
Ev(type, text, sub, val) == [type |-> type, text |-> text, sub |-> sub, val |-> val]
EvNone == Ev("None", <<>>, "", JNone)
EvRaised == Ev("Raised", <<>>, "", JNone)
EvTerminator == Ev("Terminator", <<>>, "", JNone)
EvEventName(name) == Ev("EventName", name, "", JNone)
EvText(text) == Ev("TextPayload", text, "", JNone)
EvRaw(line) == Ev("RawLine", line, "", JNone)
EvStructured(sub, v) == Ev("StructuredPayload", <<>>, sub, v)

EventPfx == <<"e", "v", "e", "n", "t", ":">>
DataPfx == <<"d", "a", "t", "a", ":">>
DONE == <<"[", "D", "O", "N", "E", "]">>
KeyContent == <<"c", "o", "n", "t", "e", "n", "t">>
KeyMessage == <<"m", "e", "s", "s", "a", "g", "e">>
KeyError == <<"e", "r", "r", "o", "r">>

\* `key in data` for what json.loads returned: a dict's keys, a list's
\* elements, a str's substrings; any other value raises TypeError.
HasKey(v, key) ==
  CASE v.kind = "object" -> \E i \in DOMAIN v.items : v.items[i].text = key
    [] v.kind = "array" -> \E i \in DOMAIN v.items : v.items[i] = JVal("string", key, <<>>)
    [] v.kind = "string" -> Contains(v.text, key)
    [] OTHER -> FALSE

\* _handle_json_data(data): data[key] of a list or a str with a str key
\* raises TypeError, as does `in` on a number, a bool or None.
HandleJsonData(v) ==
  IF v.kind \in {"number", "literal"} THEN EvRaised
  ELSE IF HasKey(v, KeyContent)
    THEN (IF v.kind = "object" THEN EvStructured("content", v) ELSE EvRaised)
  ELSE IF HasKey(v, KeyMessage)
    THEN (IF v.kind = "object" THEN EvStructured("message", v) ELSE EvRaised)
  ELSE IF HasKey(v, KeyError)
    THEN (IF v.kind = "object" THEN EvStructured("error", v) ELSE EvRaised)
  ELSE EvStructured("data", v)

\* LineKind without the comment branch
LineKindNoComment(line) ==
  IF Strip(line) = <<>> THEN "blank"
  ELSE IF StartsWith(line, EventPfx) THEN "event"
  ELSE IF StartsWith(line, DataPfx) THEN "data"
  ELSE "raw"

\* the if / elif chain of _process_sse_line
LineKind(line) ==
  IF Strip(line) = <<>> THEN "blank"
  ELSE IF StartsWith(line, EventPfx) THEN "event"
  ELSE IF StartsWith(line, DataPfx) THEN "data"
  ELSE IF StartsWith(line, <<":">>) THEN "comment"
  ELSE "raw"

RECURSIVE DropSpaces(_)
DropSpaces(s) == IF Len(s) > 0 /\ s[1] = " " THEN DropSpaces(Tail(s)) ELSE s

\* DataPayload stripping every leading space (raw.lstrip(' '))
DataPayloadLStrip(line) == DropSpaces(From(line, 5))

\* raw = line[5:]; if raw.startswith(' '): raw = raw[1:]
DataPayload(line) ==
  LET raw == From(line, 5)
  IN IF StartsWith(raw, <<" ">>) THEN From(raw, 1) ELSE raw

\* IsTerminator comparing with the sentinel without its brackets
IsTerminatorBare(data) == data = <<"D", "O", "N", "E">>

\* data == '[DONE]'
IsTerminator(data) == data = DONE

\* the data branch after the payload is taken
\* try: parsed = json.loads(text); self._handle_json_data(parsed)
\* except json.JSONDecodeError: print(text, end='')
TryJson(text, parsed) == IF parsed.ok THEN HandleJsonData(parsed.val) ELSE EvText(text)

\* the data branch after the payload is taken
ProcessData(data) ==
  IF IsTerminator(data) THEN EvTerminator
  ELSE TryJson(Unescape(data), JsonLoads(Unescape(data)))

Branch(kind, line) ==
  CASE kind = "blank" -> EvNone
    [] kind = "event" -> EvEventName(Strip(From(line, 6)))
    [] kind = "data" -> ProcessData(DataPayload(line))
    [] kind = "comment" -> EvNone
    [] kind = "raw" -> EvRaw(line)

ProcessSseLine(line) == Branch(LineKind(line), line)

Range(s) == {s[i] : i \in DOMAIN s}

FirstNL(s) == CHOOSE i \in DOMAIN s : s[i] = NL /\ \A j \in 1..(i - 1) : s[j] # NL

LastNL(s) == CHOOSE i \in DOMAIN s : s[i] = NL /\ \A j \in (i + 1)..Len(s) : s[j] # NL

\* SplitFirst keeping only what follows the last newline (split at the wrong one)
SplitFirstLast(buf) ==
  [line |-> SubSeq(buf, 1, FirstNL(buf) - 1), rest |-> From(buf, LastNL(buf))]

\* line, buffer = buffer.split('\n', 1)
SplitFirst(buf) ==
  [line |-> SubSeq(buf, 1, FirstNL(buf) - 1), rest |-> From(buf, FirstNL(buf))]

\* AppendChunk forgetting what was buffered (buffer = chunk)
AppendChunkOnly(buf, chunk) == chunk

\* buffer += chunk
AppendChunk(buf, chunk) == buf \o chunk

\* while '\n' in buffer: ...; an exception of _process_sse_line leaves the
\* loop and the function through the handler at line 111.
RECURSIVE ParseLoop(_, _)
RECURSIVE AfterLine(_, _, _, _)
ParseLoop(buf, tr) ==
  IF NL \notin Range(buf) THEN [buffer |-> buf, trace |-> tr, status |-> "running"]
  ELSE AfterLine(SplitFirst(buf).rest, tr, RStripCR(SplitFirst(buf).line),
                 ProcessSseLine(RStripCR(SplitFirst(buf).line)))

\* out is what _process_sse_line(line) did
AfterLine(rest, tr, line, out) ==
  IF out.type = "Raised"
  THEN [buffer |-> rest, trace |-> Append(tr, [line |-> line, out |-> out]),
        status |-> "error"]
  ELSE ParseLoop(rest, Append(tr, [line |-> line, out |-> out]))

\* EndOfBody processing a last line that has no newline
EndOfBodyFlush(buf, tr) ==
  IF buf = <<>> THEN tr
  ELSE Append(tr, [line |-> RStripCR(buf), out |-> ProcessSseLine(RStripCR(buf))])

\* the for loop ends with the body: nothing is done with the buffer
EndOfBody(buf, tr) == tr

(***************************************************************************)
(* Response bodies                                                         *)
(***************************************************************************)
MaxLines == 2
MaxChunk == 2

Sp == " "
Templates ==
  { DataPfx \o <<Sp, "h", "i">>,
    DataPfx \o <<Sp, Sp, "h", "i">>,
    DataPfx \o <<"h", "i">>,
    DataPfx,
    DataPfx \o <<Sp>> \o DONE \o <<CR>>,
    DataPfx \o DONE,
    DataPfx \o <<Sp, Sp>> \o DONE,
    DataPfx \o <<Sp, "{", QUOTE>> \o KeyContent \o <<QUOTE, ":", "1", "}">>,
    DataPfx \o <<Sp, "{", QUOTE, "a", QUOTE, ":", QUOTE, BACKSLASH, "n", QUOTE, "}">>,
    DataPfx \o <<Sp, "{", "a", "}">>,
    DataPfx \o <<Sp, "1">>,
    DataPfx \o <<Sp, "[", "1", "]">>,
    DataPfx \o <<Sp, QUOTE, "x", QUOTE>>,
    DataPfx \o <<Sp, QUOTE>> \o KeyError \o <<QUOTE>>,
    DataPfx \o <<Sp, "{", BACKSLASH, "n", QUOTE, "a", QUOTE, ":", "1", "}">>,
    DataPfx \o <<Sp, "a", BACKSLASH, "n">>,
    <<":", Sp>> \o DONE,
    <<":">> \o DataPfx \o <<Sp, "x">>,
    EventPfx \o <<Sp, "m", Sp>>,
    <<CR>>,
    <<"r", "a", "w">> }

RECURSIVE Join(_)
Join(ls) == IF Len(ls) = 0 THEN <<>> ELSE ls[1] \o <<NL>> \o Join(Tail(ls))

\* up to MaxLines lines, the last one with or without its newline
Bodies ==
  LET lss == UNION { [1..k -> Templates] : k \in 0..MaxLines }
  IN { Join(ls) : ls \in lss }
     \cup { SubSeq(Join(ls), 1, Len(Join(ls)) - 1) : ls \in lss \ {<<>>} }

VARIABLES body, pos, buffer, trace, status
vars == <<body, pos, buffer, trace, status>>

Received == SubSeq(body, 1, pos)

Init ==
  /\ body \in Bodies
  /\ pos = 0
  /\ buffer = <<>>
  /\ trace = <<>>
  /\ status = "running"

Store(r) ==
  /\ buffer' = r.buffer
  /\ trace' = r.trace
  /\ status' = r.status

\* one iteration of `for chunk in response.iter_content(...)`
NextChunk ==
  /\ status = "running"
  /\ pos < Len(body)
  /\ \E n \in (0..MaxChunk) \cup {Len(body) - pos} :
       /\ pos + n <= Len(body)
       /\ IF n = 0
          THEN UNCHANGED <<pos, buffer, trace, status>>
          ELSE /\ pos' = pos + n
               /\ Store(ParseLoop(AppendChunk(buffer, SubSeq(body, pos + 1, pos + n)),
                                  trace))
  /\ UNCHANGED body

\* the body is exhausted: the for loop and the function end
BodyClosed ==
  /\ status = "running"
  /\ pos = Len(body)
  /\ status' = "closed"
  /\ trace' = EndOfBody(buffer, trace)
  /\ UNCHANGED <<body, pos, buffer>>

Next == NextChunk \/ BodyClosed

Spec == Init /\ [][Next]_vars

\* what has been printed, in order
Events(tr) ==
  LET kept == SelectSeq(tr, LAMBDA e : e.out.type \notin {"None", "Raised"})
  IN [i \in DOMAIN kept |-> kept[i].out]
(***************************************************************************)
(* Properties                                                              *)
(***************************************************************************)
\* the newline-terminated lines of s, trailing carriage returns removed
RECURSIVE CompleteLines(_, _)
CompleteLines(s, cur) ==
  IF s = <<>> THEN <<>>
  ELSE IF s[1] = NL THEN <<RStripCR(cur)>> \o CompleteLines(Tail(s), <<>>)
  ELSE CompleteLines(Tail(s), Append(cur, s[1]))

TraceLines == [i \in DOMAIN trace |-> trace[i].line]

RECURSIVE AfterLastNL(_)
AfterLastNL(s) ==
  IF s = <<>> \/ s[Len(s)] = NL THEN <<>>
  ELSE Append(AfterLastNL(SubSeq(s, 1, Len(s) - 1)), s[Len(s)])

DoneLines == {DataPfx \o <<" ">> \o DONE, DataPfx \o DONE}

\* C1: however the text received so far was cut into chunks, the events
\* decoded are those of feeding that text to the buffering loop as one chunk.
C1_ChunkingIrrelevant ==
  Events(trace) = Events(ParseLoop(AppendChunk(<<>>, Received), <<>>).trace)

C1_Witness ==
  /\ pos = Len(body)
  /\ Len(Events(trace)) = 2
  /\ Events(trace)[1].type = "StructuredPayload"
  /\ Events(trace)[2].type = "TextPayload"

\* C2: once a Terminator has been emitted, no later line raises an error or
\* emits an event.
C2_NothingAfterTerminator ==
  \A i, j \in DOMAIN trace :
    i < j /\ trace[i].out.type = "Terminator" => trace[j].out = EvNone

\* C3: a data line whose unescaped payload is not JSON, or is JSON but not an
\* object, yields the TextPayload of the unescaped payload, and no error is
\* raised.
C3_NonObjectIsText ==
  \A i \in DOMAIN trace :
    /\ StartsWith(trace[i].line, DataPfx)
    /\ DataPayload(trace[i].line) # DONE
    /\ JsonLoads(Unescape(DataPayload(trace[i].line))).val.kind # "object"
    => trace[i].out = EvText(Unescape(DataPayload(trace[i].line)))

\* C4: a line "data: " + P with P a valid JSON object yields the
\* StructuredPayload of P.
C4_ObjectIsStructured ==
  \A i \in DOMAIN trace :
    /\ StartsWith(trace[i].line, DataPfx \o <<" ">>)
    /\ JsonLoads(From(trace[i].line, 6)).val.kind = "object"
    => /\ trace[i].out.type = "StructuredPayload"
       /\ trace[i].out.val = JsonLoads(From(trace[i].line, 6)).val

\* C5: the lines data: [DONE] and data:[DONE], and only they, yield the
\* Terminator and nothing else.
C5_DoneIsTerminator ==
  \A i \in DOMAIN trace :
    /\ trace[i].line \in DoneLines => trace[i].out = EvTerminator
    /\ trace[i].out.type = "Terminator" => trace[i].line \in DoneLines

C5_Witness ==
  /\ \E i \in DOMAIN trace : trace[i].line = DataPfx \o DONE
  /\ \E i \in DOMAIN trace : trace[i].line = DataPfx \o <<" ">> \o DONE

\* C6: between chunks the buffer holds no newline and is exactly what was
\* received after the last newline.
C6_BufferIsUnfinishedLine ==
  status = "running" => NL \notin Range(buffer) /\ buffer = AfterLastNL(Received)

C6_Witness ==
  /\ status = "running"
  /\ Len(trace) = 1
  /\ Len(buffer) > 2
  /\ pos < Len(body)

RECURSIVE LeadingSpaces(_)
LeadingSpaces(s) == IF Len(s) > 0 /\ s[1] = " " THEN 1 + LeadingSpaces(Tail(s)) ELSE 0

\* what follows data: with k leading spaces keeps k - 1 of them (none for k = 0)
PayloadKeeping(rest) ==
  IF LeadingSpaces(rest) = 0 THEN rest
  ELSE [j \in 1..(LeadingSpaces(rest) - 1) |-> " "] \o From(rest, LeadingSpaces(rest))

\* C7: the payload of a data line is what follows data: less at most one
\* leading space; it is what the TextPayload unescapes and what is compared
\* with [DONE].
C7_OneSpaceStripped ==
  \A i \in DOMAIN trace :
    StartsWith(trace[i].line, DataPfx) =>
      /\ trace[i].out.type = "TextPayload" =>
           trace[i].out.text = Unescape(PayloadKeeping(From(trace[i].line, 5)))
      /\ trace[i].out.type = "Terminator" <=>
           PayloadKeeping(From(trace[i].line, 5)) = DONE

C7_Witness ==
  /\ \E i \in DOMAIN trace :
       /\ StartsWith(trace[i].line, DataPfx \o <<" ", " ">>)
       /\ trace[i].out.type = "TextPayload"
       /\ trace[i].out.text[1] = " "
  /\ \E i \in DOMAIN trace :
       /\ StartsWith(trace[i].line, DataPfx \o <<"h">>)
       /\ trace[i].out.type = "TextPayload"

\* what classifying every line of ls once, in order, yields
Classified(ls) == [i \in DOMAIN ls |-> [line |-> ls[i], out |-> ProcessSseLine(ls[i])]]

\* C8: the events delivered are those of the newline-terminated lines
\* received, each line classified once, in the order of the lines.
C8_EveryLineOnce == Events(trace) = Events(Classified(CompleteLines(Received, <<>>)))

\* C9: a line that begins with a colon yields nothing.
C9_CommentYieldsNothing ==
  \A i \in DOMAIN trace :
    StartsWith(trace[i].line, <<":">>) => trace[i].out = EvNone

C9_Witness ==
  /\ \E i \in DOMAIN trace : StartsWith(trace[i].line, <<":">> \o DataPfx)
  /\ \E i \in DOMAIN trace : trace[i].line = <<":", " ">> \o DONE

\* C10: when the body has closed, only its newline-terminated lines were
\* classified: what follows the last newline yielded nothing.
C10_TailDiscarded ==
  status = "closed" => TraceLines = CompleteLines(body, <<>>)

C10_Witness ==
  /\ status = "closed"
  /\ buffer = DataPfx \o DONE
  /\ trace # <<>>
  /\ \A i \in DOMAIN trace : trace[i].out.type # "Terminator"
====
